---- MODULE Spec2Model ----
(***************************************************************************)
(* A model of lib/source-code/source-code.js: the SourceCode object built  *)
(* over a text, an AST and its token and comment arrays, and its queries.  *)
(***************************************************************************)
EXTENDS Integers, Sequences, FiniteSets, TLC

VARIABLES
    text,               \* this.text: a sequence of characters
    lines,              \* this.lines
    lineStartIndices,   \* this.lineStartIndices
    tokens,             \* ast.tokens
    comments,           \* ast.comments
    tokensAndComments,  \* this.tokensAndComments
    ast,                \* the tree: node id -> node record, the root is node 1
    frozen,             \* the arrays Object.freeze was applied to
    built,              \* the exposed data as it was when the constructor returned
    commentCache,       \* this._commentCache
    scopeCache,         \* this[caches].get("scopes")
    scopeManager,       \* this.scopeManager
    work,               \* <<walks of the stream by getComments, calls of acquire>>
    res                 \* the outcome of the last call

vars == <<text, lines, lineStartIndices, tokens, comments, tokensAndComments,
          ast, frozen, built, commentCache, scopeCache, scopeManager, work, res>>

-----------------------------------------------------------------------------
(* Bounds *)

MaxLen == 3        \* longest text of the position specifications
MaxPos == 4        \* largest offset of the tree and stream specifications

-----------------------------------------------------------------------------
(* JavaScript values that reach the numeric parameters.  A number is kept  *)
(* in halves (h = 2 * value) so that 1.5 is a value of the model; NaN,     *)
(* undefined and a string are values of their own.                         *)

Num(h) == [t |-> "number", h |-> h]
JsInt(i) == Num(2 * i)
NaN == [t |-> "NaN", h |-> 0]
Undefined == [t |-> "undefined", h |-> 0]
Str == [t |-> "string", h |-> 0]

\* a type check that lets integers alone through
TypeofInteger(v) == v.t = "number" /\ v.h % 2 = 0

\* typeof v === "number": true of NaN as well
TypeofNumber(v) == v.t \in {"number", "NaN"}

IsInteger(v) == v.t = "number" /\ v.h % 2 = 0

\* a < b on numbers; every comparison with NaN or undefined is false
JsLt(a, b) == a.t = "number" /\ b.t = "number" /\ a.h < b.h
JsLe(a, b) == a.t = "number" /\ b.t = "number" /\ a.h <= b.h
JsGt(a, b) == JsLt(b, a)
JsGe(a, b) == JsLe(b, a)

\* a === b on numbers (NaN === NaN is false)
JsStrictEq(a, b) == a.t = "number" /\ b.t = "number" /\ a.h = b.h

\* a + b and a - b; an operand that is NaN or undefined gives NaN
JsAdd(a, b) == IF a.t = "number" /\ b.t = "number" THEN Num(a.h + b.h) ELSE NaN
JsSub(a, b) == IF a.t = "number" /\ b.t = "number" THEN Num(a.h - b.h) ELSE NaN

\* arr[v] for an array of integers: undefined unless v is an index of arr
ArrGet(arr, v) ==
    IF IsInteger(v) /\ v.h >= 0 /\ v.h \div 2 < Len(arr)
    THEN JsInt(arr[(v.h \div 2) + 1])
    ELSE Undefined

-----------------------------------------------------------------------------
(* Line table *)

Chars == {"a", "CR", "LF", "LS"}
LineBreakChars == {"CR", "LF", "LS"}

\* the length of the line break matched at 1-based position p, 0 if none
BreakLenAt(t, p) ==
    IF p > Len(t) \/ t[p] \notin LineBreakChars THEN 0
    ELSE IF t[p] = "CR" /\ p < Len(t) /\ t[p + 1] = "LF" THEN 2
    ELSE 1

\* the loop of the constructor: scanning from 1-based position p with the
\* line starts found so far, the final table of line starts
RECURSIVE ScanLineStarts(_, _, _)
ScanLineStarts(t, p, starts) ==
    IF p > Len(t) THEN starts
    ELSE IF BreakLenAt(t, p) = 0 THEN ScanLineStarts(t, p + 1, starts)
    ELSE ScanLineStarts(t, p + BreakLenAt(t, p),
                        Append(starts, (p - 1) + BreakLenAt(t, p)))

BuildLineStartIndices(t) == ScanLineStarts(t, 1, <<0>>)

\* the offset of the first line break at or after offset s, Len(t) if none
RECURSIVE NextBreak(_, _)
NextBreak(t, s) ==
    IF s >= Len(t) THEN Len(t)
    ELSE IF BreakLenAt(t, s + 1) > 0 THEN s
    ELSE NextBreak(t, s + 1)

\* this.lines: each line's text, its line break excluded
BuildLines(t) ==
    LET starts == BuildLineStartIndices(t)
    IN [k \in 1..Len(starts) |-> SubSeq(t, starts[k] + 1, NextBreak(t, starts[k]))]

-----------------------------------------------------------------------------
(* Results of a call *)

TypeError == [kind |-> "TypeError", line |-> Undefined, column |-> Undefined,
              value |-> Undefined]
RangeError == [kind |-> "RangeError", line |-> Undefined, column |-> Undefined,
               value |-> Undefined]
LocResult(l, c) == [kind |-> "loc", line |-> l, column |-> c, value |-> Undefined]
IndexResult(v) == [kind |-> "index", line |-> Undefined, column |-> Undefined,
                   value |-> v]

Threw(r) == r.kind \in {"TypeError", "RangeError"}

-----------------------------------------------------------------------------
(* getLocFromIndex and getIndexFromLoc *)

\* findIndex with the comparison index <= el
FindIndexGreaterOrEqual(starts, index) ==
    IF \E k \in 1..Len(starts) : index.t = "number" /\ index.h <= 2 * starts[k]
    THEN (CHOOSE k \in 1..Len(starts) :
              /\ index.h <= 2 * starts[k]
              /\ \A j \in 1..(k - 1) : ~(index.h <= 2 * starts[j])) - 1
    ELSE -1

\* lineStartIndices.findIndex(el => index < el), -1 when no element matches
FindIndexGreater(starts, index) ==
    IF \E k \in 1..Len(starts) : JsLt(index, JsInt(starts[k]))
    THEN (CHOOSE k \in 1..Len(starts) :
              /\ JsLt(index, JsInt(starts[k]))
              /\ \A j \in 1..(k - 1) : ~JsLt(index, JsInt(starts[j]))) - 1
    ELSE -1

IndexOutOfRange(index, t) == JsLt(index, JsInt(0)) \/ JsGt(index, JsInt(Len(t)))

getLocFromIndex(t, lns, starts, index) ==
    IF ~TypeofNumber(index) THEN TypeError
    ELSE IF IndexOutOfRange(index, t) THEN RangeError
    ELSE IF JsStrictEq(index, JsInt(Len(t)))
    THEN LocResult(JsInt(Len(lns)), JsInt(Len(lns[Len(lns)])))
    ELSE LET lineNumber ==
                 IF JsGe(index, JsInt(starts[Len(starts)]))
                 THEN JsInt(Len(starts))
                 ELSE JsInt(FindIndexGreater(starts, index))
         IN LocResult(lineNumber,
                      JsSub(index, ArrGet(starts, JsSub(lineNumber, JsInt(1)))))

\* a loc argument: whether it is an object, and its line and column
Loc(l, c) == [isObject |-> TRUE, line |-> l, column |-> c]
NotALoc == [isObject |-> FALSE, line |-> Undefined, column |-> Undefined]

\* a column test that refuses only what lies beyond the line's end
ColumnBeyondEnd(line, count, positionIndex, lineEndIndex) ==
    /\ line.t = "number" /\ line.h <= 2 * count
    /\ positionIndex.t = "number" /\ lineEndIndex.t = "number"
    /\ positionIndex.h > lineEndIndex.h

\* the column test of getIndexFromLoc
ColumnOutOfRange(line, count, positionIndex, lineEndIndex) ==
    \/ JsStrictEq(line, JsInt(count)) /\ JsGt(positionIndex, lineEndIndex)
    \/ JsLt(line, JsInt(count)) /\ JsGe(positionIndex, lineEndIndex)

getIndexFromLoc(t, starts, loc) ==
    IF ~loc.isObject \/ ~TypeofNumber(loc.line) \/ ~TypeofNumber(loc.column)
    THEN TypeError
    ELSE IF JsLe(loc.line, JsInt(0)) THEN RangeError
    ELSE IF JsGt(loc.line, JsInt(Len(starts))) THEN RangeError
    ELSE LET lineStartIndex == ArrGet(starts, JsSub(loc.line, JsInt(1)))
             lineEndIndex == IF JsStrictEq(loc.line, JsInt(Len(starts)))
                             THEN JsInt(Len(t))
                             ELSE ArrGet(starts, loc.line)
             positionIndex == JsAdd(lineStartIndex, loc.column)
         IN IF ColumnOutOfRange(loc.line, Len(starts), positionIndex, lineEndIndex)
            THEN RangeError
            ELSE IndexResult(positionIndex)

\* getIndexFromLoc(getLocFromIndex(index)): an error of the first call
\* reaches the caller
roundTrip(t, lns, starts, index) ==
    LET r == getLocFromIndex(t, lns, starts, index)
    IN IF Threw(r) THEN r ELSE getIndexFromLoc(t, starts, Loc(r.line, r.column))

-----------------------------------------------------------------------------
(* Values shared by the specifications *)

NoCall == [op |-> "none", arg |-> Undefined, out |-> TypeError]

\* the parts of the state a specification does not use
NoText == text = <<>> /\ lines = <<<<>>>> /\ lineStartIndices = <<0>>
NoStream == tokens = <<>> /\ comments = <<>> /\ tokensAndComments = <<>>
NoTree == ast = <<>>
NoCaches == commentCache = <<>> /\ scopeCache = <<>> /\ work = <<0, 0>>
NoFreeze == frozen = {} /\ built = <<>>
NoScopes == scopeManager = <<>>

textVars == <<text, lines, lineStartIndices>>
streamVars == <<tokens, comments, tokensAndComments>>
cacheVars == <<commentCache, scopeCache, work>>
freezeVars == <<frozen, built>>
objectVars == <<textVars, streamVars, ast, freezeVars, scopeManager>>

-----------------------------------------------------------------------------
(* Position specification: a SourceCode over each short text, queried with *)
(* getLocFromIndex and getIndexFromLoc.                                     *)

RECURSIVE SeqsUpTo(_, _)
SeqsUpTo(S, n) ==
    IF n = 0 THEN {<<>>}
    ELSE LET shorter == SeqsUpTo(S, n - 1)
         IN shorter \cup {Append(q, c) : q \in {r \in shorter : Len(r) = n - 1}, c \in S}

Texts == SeqsUpTo(Chars, MaxLen)

\* the arguments callers pass: the integers around the valid offsets, the
\* fractions 0.5 and 1.5, NaN, undefined and a string
NumberArgs == {JsInt(i) : i \in (-1)..(MaxLen + 1)} \cup {Num(1), Num(3)}
ArgValues == NumberArgs \cup {NaN, Undefined, Str}
LocArgs == {Loc(l, c) : l \in ArgValues, c \in ArgValues} \cup {NotALoc}

PosInit ==
    /\ text \in Texts
    /\ lines = BuildLines(text)
    /\ lineStartIndices = BuildLineStartIndices(text)
    /\ NoStream /\ NoTree /\ NoCaches /\ NoFreeze /\ NoScopes
    /\ res = NoCall

GetLocFromIndex ==
    \E index \in ArgValues :
        /\ res' = [op |-> "getLocFromIndex", arg |-> index,
                   out |-> getLocFromIndex(text, lines, lineStartIndices, index)]
        /\ UNCHANGED <<objectVars, cacheVars>>

GetIndexFromLoc ==
    \E loc \in LocArgs :
        /\ res' = [op |-> "getIndexFromLoc", arg |-> loc,
                   out |-> getIndexFromLoc(text, lineStartIndices, loc)]
        /\ UNCHANGED <<objectVars, cacheVars>>

RoundTrip ==
    \E index \in ArgValues :
        /\ res' = [op |-> "roundTrip", arg |-> index,
                   out |-> roundTrip(text, lines, lineStartIndices, index)]
        /\ UNCHANGED <<objectVars, cacheVars>>

PosNext == GetLocFromIndex \/ GetIndexFromLoc \/ RoundTrip

PosSpec == PosInit /\ [][PosNext]_vars

\* the start of 1-based line L and the end of it: the next line's start, or
\* the text length for the final line
lineStart(L) == lineStartIndices[L]
lineEnd(L) == IF L = Len(lineStartIndices) THEN Len(text) ELSE lineStartIndices[L + 1]

\* C1: for every integer offset i with 0 <= i <= text length,
\* getIndexFromLoc(getLocFromIndex(i)) returns i and neither call throws.
C1_RoundTrip ==
    (res.op = "roundTrip" /\ IsInteger(res.arg)
        /\ JsLe(JsInt(0), res.arg) /\ JsLe(res.arg, JsInt(Len(text))))
    => res.out = IndexResult(res.arg)

\* a round trip made on the second unit of a CRLF pair
C1_Witness ==
    /\ res.op = "roundTrip"
    /\ \E p \in 1..(Len(text) - 1) :
           text[p] = "CR" /\ text[p + 1] = "LF" /\ res.arg = JsInt(p)
    /\ res.out = IndexResult(res.arg)

\* a call of getIndexFromLoc with an integer line of the text and an integer
\* column that is not negative
C2_Case ==
    /\ res.op = "getIndexFromLoc"
    /\ res.arg.isObject /\ IsInteger(res.arg.line) /\ IsInteger(res.arg.column)
    /\ res.arg.line.h \div 2 \in 1..Len(lineStartIndices)
    /\ res.arg.column.h >= 0

\* C2 as stated: lineStart + column is returned whenever it is at most the
\* line's end, and a RangeError is thrown only when it is beyond the end.
C2_AsStated ==
    C2_Case =>
        LET L == res.arg.line.h \div 2
            p == lineStart(L) + (res.arg.column.h \div 2)
        IN /\ p <= lineEnd(L) => res.out = IndexResult(JsInt(p))
           /\ res.out.kind = "RangeError" => p > lineEnd(L)

\* C2 amended: on the final line lineStart + column is returned when it is at
\* most the text length; on every other line it is returned only when it is
\* strictly before the next line's start; otherwise a RangeError is thrown.
C2_Amended ==
    C2_Case =>
        LET L == res.arg.line.h \div 2
            p == lineStart(L) + (res.arg.column.h \div 2)
            accepted == IF L = Len(lineStartIndices) THEN p <= lineEnd(L)
                        ELSE p < lineEnd(L)
        IN res.out = IF accepted THEN IndexResult(JsInt(p)) ELSE RangeError

\* the column that reaches the next line's start is refused on a line that
\* is not the last
C2_Witness ==
    /\ C2_Case
    /\ res.arg.line.h \div 2 < Len(lineStartIndices)
    /\ lineStart(res.arg.line.h \div 2) + (res.arg.column.h \div 2)
           = lineEnd(res.arg.line.h \div 2)
    /\ res.out = RangeError

\* the numeric arguments of the last call
NumericArgs ==
    IF res.op = "getLocFromIndex" THEN {res.arg}
    ELSE IF res.op = "getIndexFromLoc" /\ res.arg.isObject
    THEN {res.arg.line, res.arg.column}
    ELSE {}

\* C8 as stated: a numeric argument that is not an integer makes the call
\* throw a TypeError.
C8_AsStated ==
    (\E v \in NumericArgs : ~IsInteger(v)) => res.out = TypeError

\* C8 amended: the call throws a TypeError exactly when an argument is not of
\* number type; a number that is not an integer (1.5, NaN) passes the type
\* check.
C8_Amended ==
    /\ res.op = "getLocFromIndex" =>
           (res.out = TypeError <=> res.arg.t \notin {"number", "NaN"})
    /\ res.op = "getIndexFromLoc" =>
           (res.out = TypeError <=>
               \/ ~res.arg.isObject
               \/ \E v \in NumericArgs : v.t \notin {"number", "NaN"})

\* a fraction and NaN each came back as a position
C8_Witness ==
    /\ res.op = "getLocFromIndex"
    /\ res.arg \in {NaN} \cup {Num(h) : h \in {1, 3}}
    /\ res.out.kind = "loc"

\* C14: when getIndexFromLoc returns for an integer line and an integer
\* column, negative columns included, the offset returned lies between the
\* start and the end of the line asked for, and so between 0 and the text
\* length.
C14_WithinLine ==
    (res.op = "getIndexFromLoc" /\ res.out.kind = "index"
        /\ IsInteger(res.arg.line) /\ IsInteger(res.arg.column))
    => LET L == res.arg.line.h \div 2
       IN /\ JsLe(JsInt(lineStart(L)), res.out.value)
          /\ JsLe(res.out.value, JsInt(lineEnd(L)))
          /\ JsLe(JsInt(0), res.out.value)
          /\ JsLe(res.out.value, JsInt(Len(text)))

-----------------------------------------------------------------------------
(* The tree.  ast[n] is node n: its type, its range <<start, end>>, its    *)
(* parent (Null for an absent parent link), its children in the order of   *)
(* the visitor keys, the start and end properties some parsers set next    *)
(* to range, and the line it starts on (loc.start.line).  Node 1 is the    *)
(* root.                                                                    *)

Null == 0
MaxNodes == 3      \* most nodes of a tree

Node(type, range, parent, kids) ==
    [type |-> type, range |-> range, parent |-> parent, kids |-> kids,
     start |-> JsInt(range[1]), end |-> JsInt(range[2]), line |-> 1]

Ranges == {r \in (0..MaxPos) \X (0..MaxPos) : r[1] <= r[2]}

\* the ascending sequence of the elements of a set of node ids
RECURSIVE Ascending(_)
Ascending(S) ==
    IF S = {} THEN <<>>
    ELSE LET m == CHOOSE x \in S : \A y \in S : x <= y
         IN <<m>> \o Ascending(S \ {m})

\* parent links: every node but the root has a parent with a smaller id
ParentMaps(n) == {par \in [1..n -> 0..n] : par[1] = Null /\ \A i \in 2..n : par[i] \in 1..(i - 1)}

\* child ranges nest inside the parent's range; siblings follow each other
\* in source order without overlapping
RangesNest(n, par, rng) ==
    /\ \A i \in 2..n : rng[par[i]][1] <= rng[i][1] /\ rng[i][2] <= rng[par[i]][2]
    /\ \A i, j \in 2..n : (i < j /\ par[i] = par[j]) => rng[i][2] <= rng[j][1]

\* n is a descendant of a (a proper one)
RECURSIVE IsDescendant(_, _, _)
IsDescendant(tree, n, a) ==
    /\ tree[n].parent # Null
    /\ (tree[n].parent = a \/ IsDescendant(tree, tree[n].parent, a))

\* an enter condition with a closed range
EnterContainsClosed(range, index) == range[1] <= index /\ index <= range[2]

\* the condition of enter(node) in getNodeByRangeIndex
EnterContains(range, index) == range[1] <= index /\ index < range[2]

\* the condition of leave(node) in getNodeByRangeIndex
LeaveBreaks(n, result) == n = result

\* Traverser.traverse with the enter and leave callbacks of
\* getNodeByRangeIndex: a node enter skipped has its children left out and
\* is still left; nothing is visited once a callback has called break()
RECURSIVE VisitNode(_, _, _, _), VisitKids(_, _, _, _)
VisitNode(tree, n, index, st) ==
    IF st.broken THEN st
    ELSE LET hit == EnterContains(tree[n].range, index)
             entered == IF hit THEN [st EXCEPT !.result = n] ELSE st
             below == IF hit THEN VisitKids(tree, tree[n].kids, index, entered)
                      ELSE entered
         IN IF below.broken THEN below
            ELSE IF LeaveBreaks(n, below.result) THEN [below EXCEPT !.broken = TRUE]
            ELSE below
VisitKids(tree, kids, index, st) ==
    IF kids = <<>> THEN st
    ELSE VisitKids(tree, Tail(kids), index, VisitNode(tree, Head(kids), index, st))

getNodeByRangeIndex(tree, index) ==
    VisitNode(tree, 1, index, [result |-> Null, broken |-> FALSE]).result

-----------------------------------------------------------------------------
(* Range lookup specification: getNodeByRangeIndex over every small tree.  *)

\* the trees of n nodes
TreesOf(n) ==
    UNION {
        { [i \in 1..n |->
              Node(IF i = 1 THEN "Program" ELSE "Node", rng[i], par[i],
                   Ascending({k \in 1..n : par[k] = i}))] :
          rng \in {r \in [1..n -> Ranges] : RangesNest(n, par, r)} }
        : par \in ParentMaps(n) }

PlainTrees == UNION {TreesOf(n) : n \in 1..MaxNodes}

TreeInit ==
    /\ ast \in PlainTrees
    /\ NoText /\ NoStream /\ NoCaches /\ NoFreeze /\ NoScopes
    /\ res = NoCall

GetNodeByRangeIndex ==
    \E index \in (-1)..(MaxPos + 1) :
        /\ res' = [op |-> "getNodeByRangeIndex", arg |-> index,
                   out |-> getNodeByRangeIndex(ast, index)]
        /\ UNCHANGED <<objectVars, cacheVars>>

TreeNext == GetNodeByRangeIndex

TreeSpec == TreeInit /\ [][TreeNext]_vars

InRange(n, index) == ast[n].range[1] <= index /\ index < ast[n].range[2]

\* C3: null when the index is outside the root's range; otherwise the node
\* returned contains the index, no descendant of it does, and every node
\* that contains the index is the node returned or one of its ancestors.
C3_DeepestNode ==
    res.op = "getNodeByRangeIndex" =>
        IF ~InRange(1, res.arg) THEN res.out = Null
        ELSE /\ res.out \in DOMAIN ast
             /\ InRange(res.out, res.arg)
             /\ \A d \in DOMAIN ast :
                    InRange(d, res.arg) => (d = res.out \/ IsDescendant(ast, res.out, d))

\* the lookup returned a node two levels below the root that has a sibling
\* or an aunt the index is not in
C3_Witness ==
    /\ res.op = "getNodeByRangeIndex"
    /\ res.out \in DOMAIN ast
    /\ ast[res.out].parent \notin {Null, 1}
    /\ InRange(res.out, res.arg)

-----------------------------------------------------------------------------
(* Tokens and comments.  An entry of ast.tokens or ast.comments has a kind *)
(* ("token" or "comment"), a type, a range, the 1-based line it is on, and *)
(* two facts about its value: whether it contains white space and whether  *)
(* its first character is "*".                                              *)

Entry(kind, type, range, line, ws, star) ==
    [kind |-> kind, type |-> type, range |-> range, line |-> line,
     ws |-> ws, star |-> star,
     start |-> JsInt(range[1]), end |-> JsInt(range[2])]

\* an entry or a node of a parser that sets range and loc only
WithoutStartEnd(x) == [x EXCEPT !.start = Undefined, !.end = Undefined]

\* isCommentToken of eslint-utils
isCommentToken(e) == e.kind = "comment"

\* a comparison that sends the token first on a tie
TokenGoesFirstOnTie(token, comment) == token.range[1] <= comment.range[1]

\* the comparison of sortedMerge that sends the next token to the result
TokenGoesFirst(token, comment) == token.range[1] < comment.range[1]

\* sortedMerge(tokens, comments), from tokenIndex ti and commentIndex ci
\* (1-based) on
RECURSIVE MergeFrom(_, _, _, _)
MergeFrom(toks, coms, ti, ci) ==
    IF ~(ti <= Len(toks) \/ ci <= Len(coms)) THEN <<>>
    ELSE IF ci > Len(coms) \/ (ti <= Len(toks) /\ TokenGoesFirst(toks[ti], coms[ci]))
    THEN <<toks[ti]>> \o MergeFrom(toks, coms, ti + 1, ci)
    ELSE <<coms[ci]>> \o MergeFrom(toks, coms, ti, ci + 1)

sortedMerge(toks, coms) == MergeFrom(toks, coms, 1, 1)

-----------------------------------------------------------------------------
(* Merge specification: sortedMerge over two sorted arrays whose ranges do *)
(* not overlap; zero-width entries may share a start offset.                *)

MaxEntries == 2    \* most entries of each array given to sortedMerge

\* sorted by start offset, each entry ending before the next begins
SortedDisjoint(q) ==
    \A i \in 1..(Len(q) - 1) : q[i].range[2] <= q[i + 1].range[1]

\* two half-open ranges share a character
Intersect(r1, r2) == r1[1] < r2[2] /\ r2[1] < r1[2]

EntrySeqs(kind, type) ==
    {q \in SeqsUpTo({Entry(kind, type, r, 1, FALSE, FALSE) : r \in Ranges}, MaxEntries) :
        SortedDisjoint(q)}

MergeInit ==
    /\ tokens \in EntrySeqs("token", "Punctuator")
    /\ comments \in EntrySeqs("comment", "Block")
    /\ \A i \in 1..Len(tokens), j \in 1..Len(comments) :
           ~Intersect(tokens[i].range, comments[j].range)
    /\ tokensAndComments = <<>>
    /\ NoText /\ NoTree /\ NoCaches /\ NoFreeze /\ NoScopes
    /\ res = NoCall

SortedMerge ==
    /\ res.op = "none"
    /\ tokensAndComments' = sortedMerge(tokens, comments)
    /\ res' = [op |-> "sortedMerge", arg |-> Undefined, out |-> TypeError]
    /\ UNCHANGED <<textVars, tokens, comments, ast, freezeVars, scopeManager, cacheVars>>

MergeNext == SortedMerge

MergeSpec == MergeInit /\ [][MergeNext]_vars

\* a token and a comment of the merged stream that start at the same offset
Tie(i, j) ==
    /\ tokensAndComments[i].kind = "token"
    /\ tokensAndComments[j].kind = "comment"
    /\ tokensAndComments[i].range[1] = tokensAndComments[j].range[1]

\* C6 as stated: of a token and a comment with the same start offset, the
\* token comes first in the merged stream.
C6_AsStated ==
    res.op = "sortedMerge" =>
        \A i, j \in 1..Len(tokensAndComments) : Tie(i, j) => i < j

\* C6 amended: of a token and a comment with the same start offset, the
\* comment comes first in the merged stream.
C6_Amended ==
    res.op = "sortedMerge" =>
        /\ Len(tokensAndComments) = Len(tokens) + Len(comments)
        /\ \A i, j \in 1..Len(tokensAndComments) : Tie(i, j) => j < i

\* a merge of a token and a comment that start at the same offset
C6_Witness ==
    /\ res.op = "sortedMerge"
    /\ \E i, j \in 1..Len(tokensAndComments) : Tie(i, j)

-----------------------------------------------------------------------------
(* Source layouts.  A layout gives, for each offset, what the character    *)
(* there belongs to: "t" a token, "x" a JSXText token holding white space, *)
(* "y" a JSXText token holding none,                                       *)
(* "c" a block comment, "d" a block comment whose text begins with "*",    *)
(* "l" a line comment, "s" a space, "n" a line break.  Every token and     *)
(* comment is one character wide.                                           *)

TokenChars == {"t", "x", "y"}
CommentChars == {"c", "d", "l"}

\* the number of line breaks before 1-based position p
RECURSIVE BreaksBefore(_, _)
BreaksBefore(layout, p) ==
    IF p <= 1 THEN 0
    ELSE BreaksBefore(layout, p - 1) + (IF layout[p - 1] = "n" THEN 1 ELSE 0)

EntryAt(layout, p) ==
    Entry(IF layout[p] \in TokenChars THEN "token" ELSE "comment",
          CASE layout[p] = "t" -> "Punctuator"
            [] layout[p] \in {"x", "y"} -> "JSXText"
            [] layout[p] = "l" -> "Line"
            [] OTHER -> "Block",
          <<p - 1, p>>, 1 + BreaksBefore(layout, p),
          layout[p] = "x", layout[p] = "d")

\* the entries of the layout whose character is in the set, in source order
RECURSIVE EntriesFrom(_, _, _)
EntriesFrom(layout, p, chars) ==
    IF p > Len(layout) THEN <<>>
    ELSE (IF layout[p] \in chars THEN <<EntryAt(layout, p)>> ELSE <<>>)
         \o EntriesFrom(layout, p + 1, chars)

LayoutTokens(layout) == EntriesFrom(layout, 1, TokenChars)
LayoutComments(layout) == EntriesFrom(layout, 1, CommentChars)

-----------------------------------------------------------------------------
(* The queries of TokenStore that SourceCode uses, over the merged stream. *)
(* An entry is named by its 1-based index in the stream; Null is no entry.  *)

Within(inner, outer) == outer[1] <= inner[1] /\ inner[2] <= outer[2]

Smallest(S) == IF S = {} THEN Null ELSE CHOOSE x \in S : \A y \in S : x <= y
Largest(S) == IF S = {} THEN Null ELSE CHOOSE x \in S : \A y \in S : x >= y

\* getFirstToken(nodeOrToken) and getLastToken(nodeOrToken): comments are
\* not counted
getFirstToken(stream, range) ==
    Smallest({i \in 1..Len(stream) :
                 stream[i].kind = "token" /\ Within(stream[i].range, range)})
getLastToken(stream, range) ==
    Largest({i \in 1..Len(stream) :
                stream[i].kind = "token" /\ Within(stream[i].range, range)})

\* getTokenAfter(x, { includeComments: true }) and getTokenBefore likewise
getTokenAfter(stream, range) ==
    Smallest({i \in 1..Len(stream) : stream[i].range[1] >= range[2]})
getTokenBefore(stream, range) ==
    Largest({i \in 1..Len(stream) : stream[i].range[2] <= range[1]})

\* getTokens(node, { includeComments: true, filter: isCommentToken })
getCommentTokens(stream, range) ==
    SelectSeq(stream, LAMBDA e : isCommentToken(e) /\ Within(e.range, range))

-----------------------------------------------------------------------------
(* isSpaceBetween.  An argument is a node, a token or a comment: its range *)
(* and, for a token or a comment, its index in the merged stream (Null for  *)
(* a node).                                                                 *)

Item(range, self) == [range |-> range, self |-> self]

BoolResult(b) == [kind |-> IF b THEN "true" ELSE "false", line |-> Undefined,
                  column |-> Undefined, value |-> Undefined]

nodesOrTokensOverlap(first, second) ==
    \/ first.range[1] <= second.range[1] /\ first.range[2] >= second.range[1]
    \/ second.range[1] <= first.range[1] /\ second.range[2] >= first.range[1]

\* the arguments taken in the order given
OrientAsGiven(first, second) == <<first, second>>

\* <<startingNodeOrToken, endingNodeOrToken>>
Orient(first, second) ==
    IF first.range[2] <= second.range[1] THEN <<first, second>> ELSE <<second, first>>

\* the JSXText clause with the final token counted as well
JSXTextOrFinalHasSpace(stream, checkInsideOfJSXText, nextToken, finalToken) ==
    /\ checkInsideOfJSXText
    /\ stream[nextToken].type = "JSXText"
    /\ stream[nextToken].ws

\* the JSXText clause of the loop
JSXTextHasSpace(stream, checkInsideOfJSXText, nextToken, finalToken) ==
    /\ checkInsideOfJSXText
    /\ nextToken # finalToken
    /\ stream[nextToken].type = "JSXText"
    /\ stream[nextToken].ws

\* the while loop, from currentToken on; reading the range of a missing
\* next token throws a TypeError
RECURSIVE SpaceWalk(_, _, _, _)
SpaceWalk(stream, currentToken, finalToken, checkInsideOfJSXText) ==
    IF currentToken = finalToken THEN BoolResult(FALSE)
    ELSE LET nextToken == getTokenAfter(stream, stream[currentToken].range)
         IN IF nextToken = Null THEN TypeError
            ELSE IF \/ stream[currentToken].range[2] # stream[nextToken].range[1]
                    \/ JSXTextHasSpace(stream, checkInsideOfJSXText, nextToken, finalToken)
            THEN BoolResult(TRUE)
            ELSE SpaceWalk(stream, nextToken, finalToken, checkInsideOfJSXText)

isSpaceBetween(stream, first, second, checkInsideOfJSXText) ==
    IF nodesOrTokensOverlap(first, second) THEN BoolResult(FALSE)
    ELSE LET ends == Orient(first, second)
             last == getLastToken(stream, ends[1].range)
             head == getFirstToken(stream, ends[2].range)
             firstToken == IF last # Null THEN last ELSE ends[1].self
             finalToken == IF head # Null THEN head ELSE ends[2].self
         IN SpaceWalk(stream, firstToken, finalToken, checkInsideOfJSXText)

-----------------------------------------------------------------------------
(* Spacing specification: isSpaceBetween and isSpaceBetweenTokens over the *)
(* nodes, tokens and comments of every short layout.                        *)

MaxStream == 3     \* longest layout of the stream specifications

SpaceLayouts == SeqsUpTo({"t", "x", "y", "c", "s"}, MaxStream)

\* the tokens and comments of the stream, and the ranges a node can have:
\* from the start of a token to the end of a token
TokenIndices(stream) == {k \in 1..Len(stream) : stream[k].kind = "token"}

ItemsOf(stream) ==
    {Item(stream[i].range, i) : i \in 1..Len(stream)}
    \cup {Item(<<stream[ij[1]].range[1], stream[ij[2]].range[2]>>, Null) :
            ij \in {p \in TokenIndices(stream) \X TokenIndices(stream) : p[1] <= p[2]}}

SpaceInit ==
    /\ \E layout \in SpaceLayouts :
           /\ tokens = LayoutTokens(layout)
           /\ comments = LayoutComments(layout)
    /\ tokensAndComments = sortedMerge(tokens, comments)
    /\ NoText /\ NoTree /\ NoCaches /\ NoFreeze /\ NoScopes
    /\ res = NoCall

IsSpaceBetween ==
    \E first \in ItemsOf(tokensAndComments), second \in ItemsOf(tokensAndComments) :
        /\ res' = [op |-> "isSpaceBetween", arg |-> <<first, second>>,
                   out |-> isSpaceBetween(tokensAndComments, first, second, FALSE)]
        /\ UNCHANGED <<objectVars, cacheVars>>

IsSpaceBetweenTokens ==
    \E first \in ItemsOf(tokensAndComments), second \in ItemsOf(tokensAndComments) :
        /\ res' = [op |-> "isSpaceBetweenTokens", arg |-> <<first, second>>,
                   out |-> isSpaceBetween(tokensAndComments, first, second, TRUE)]
        /\ UNCHANGED <<objectVars, cacheVars>>

SpaceNext == IsSpaceBetween \/ IsSpaceBetweenTokens

SpaceSpec == SpaceInit /\ [][SpaceNext]_vars

\* the ranges neither intersect nor touch
Apart(a, b) == a.range[2] < b.range[1] \/ b.range[2] < a.range[1]

\* C7: for a and b whose ranges neither intersect nor touch, the call with
\* the arguments exchanged returns what the call made returned, a boolean, in
\* both modes.
C7_Symmetric ==
    (res.op \in {"isSpaceBetween", "isSpaceBetweenTokens"}
        /\ Apart(res.arg[1], res.arg[2]))
    => /\ res.out.kind \in {"true", "false"}
       /\ res.out = isSpaceBetween(tokensAndComments, res.arg[2], res.arg[1],
                                   res.op = "isSpaceBetweenTokens")

\* a call whose first argument lies after the second found a space
C7_Witness ==
    /\ res.op = "isSpaceBetween"
    /\ res.arg[2].range[2] < res.arg[1].range[1]
    /\ res.out.kind = "true"

\* the argument that ends first and the argument that begins last
Earlier(a, b) == IF a.range[2] <= b.range[1] THEN a ELSE b
Later(a, b) == IF a.range[2] <= b.range[1] THEN b ELSE a

\* the entries of the walk: from the last token of the earlier argument to
\* the first token of the later one
WalkEntries(a, b) ==
    {k \in 1..Len(tokensAndComments) :
        /\ tokensAndComments[k].range[2] >= Earlier(a, b).range[2]
        /\ tokensAndComments[k].range[1] <= Later(a, b).range[1]}

\* every entry of the walk ends where the next one begins
AllAdjacent(a, b) ==
    \A k \in WalkEntries(a, b) :
        (k + 1) \in WalkEntries(a, b)
            => tokensAndComments[k].range[2] = tokensAndComments[k + 1].range[1]

SpacedJSXText(k) ==
    tokensAndComments[k].type = "JSXText" /\ tokensAndComments[k].ws

\* the entries that are the next entry at some step of the walk, the first
\* token of the later argument included
NextEntries(a, b) == {k \in WalkEntries(a, b) : (k - 1) \in WalkEntries(a, b)}

\* the next entries before the first token of the later argument
InnerEntries(a, b) == {k \in NextEntries(a, b) : (k + 1) \in WalkEntries(a, b)}

\* C12 as stated: in isSpaceBetweenTokens a JSXText token holding white space
\* that is the next entry at any step makes the result true; isSpaceBetween
\* returns false when all entries of the walk are adjacent.
C12_AsStated ==
    (res.op \in {"isSpaceBetween", "isSpaceBetweenTokens"}
        /\ Apart(res.arg[1], res.arg[2])) =>
        /\ (res.op = "isSpaceBetweenTokens"
               /\ \E k \in NextEntries(res.arg[1], res.arg[2]) : SpacedJSXText(k))
           => res.out = BoolResult(TRUE)
        /\ (res.op = "isSpaceBetween" /\ AllAdjacent(res.arg[1], res.arg[2]))
           => res.out = BoolResult(FALSE)

\* C12 amended: the JSXText token counts only when it is not the first token
\* of the later argument; with all entries adjacent isSpaceBetweenTokens
\* returns true exactly when there is such a token, and isSpaceBetween
\* returns false.
C12_Amended ==
    (res.op \in {"isSpaceBetween", "isSpaceBetweenTokens"}
        /\ Apart(res.arg[1], res.arg[2])) =>
        /\ (res.op = "isSpaceBetweenTokens"
               /\ \E k \in InnerEntries(res.arg[1], res.arg[2]) : SpacedJSXText(k))
           => res.out = BoolResult(TRUE)
        /\ (res.op = "isSpaceBetweenTokens" /\ AllAdjacent(res.arg[1], res.arg[2])
               /\ \A k \in InnerEntries(res.arg[1], res.arg[2]) : ~SpacedJSXText(k))
           => res.out = BoolResult(FALSE)
        /\ (res.op = "isSpaceBetween" /\ AllAdjacent(res.arg[1], res.arg[2]))
           => res.out = BoolResult(FALSE)

\* isSpaceBetweenTokens found the white space of a JSXText token between two
\* arguments whose walk has no gap
C12_Witness ==
    /\ res.op = "isSpaceBetweenTokens"
    /\ Apart(res.arg[1], res.arg[2])
    /\ AllAdjacent(res.arg[1], res.arg[2])
    /\ \E k \in InnerEntries(res.arg[1], res.arg[2]) : SpacedJSXText(k)
    /\ res.out = BoolResult(TRUE)

-----------------------------------------------------------------------------
(* getComments *)

EmptiableTypes == {"BlockStatement", "ClassBody", "ObjectExpression", "ArrayExpression"}

\* node.body.length, node.properties.length, node.elements.length or
\* node.cases.length: the children of the node, but for the discriminant of
\* a SwitchStatement
ContentLength(tree, n) ==
    IF tree[n].type = "SwitchStatement" THEN Len(tree[n].kids) - 1
    ELSE Len(tree[n].kids)

\* the test for a node that can hold comments only
HoldsOnlyComments(tree, n) ==
    \/ tree[n].type \in {"BlockStatement", "ClassBody"} /\ ContentLength(tree, n) = 0
    \/ tree[n].type = "ObjectExpression" /\ ContentLength(tree, n) = 0
    \/ tree[n].type = "ArrayExpression" /\ ContentLength(tree, n) = 0
    \/ tree[n].type = "SwitchStatement" /\ ContentLength(tree, n) = 0

\* the break tests of the two loops
StartsBeforeParent(tree, n, e) ==
    /\ tree[n].parent # Null
    /\ tree[tree[n].parent].type # "Program"
    /\ JsLt(e.start, tree[tree[n].parent].start)
EndsAfterParent(tree, n, e) ==
    /\ tree[n].parent # Null
    /\ tree[tree[n].parent].type # "Program"
    /\ JsGt(e.end, tree[tree[n].parent].end)

\* the backward loop from currentToken: the comments in the order pushed
RECURSIVE LeadingWalk(_, _, _, _)
LeadingWalk(stream, tree, n, currentToken) ==
    IF currentToken = Null \/ ~isCommentToken(stream[currentToken]) THEN <<>>
    ELSE IF StartsBeforeParent(tree, n, stream[currentToken]) THEN <<>>
    ELSE <<stream[currentToken]>>
         \o LeadingWalk(stream, tree, n, getTokenBefore(stream, stream[currentToken].range))

\* the forward loop from currentToken
RECURSIVE TrailingWalk(_, _, _, _)
TrailingWalk(stream, tree, n, currentToken) ==
    IF currentToken = Null \/ ~isCommentToken(stream[currentToken]) THEN <<>>
    ELSE IF EndsAfterParent(tree, n, stream[currentToken]) THEN <<>>
    ELSE <<stream[currentToken]>>
         \o TrailingWalk(stream, tree, n, getTokenAfter(stream, stream[currentToken].range))

Reverse(q) == [i \in 1..Len(q) |-> q[Len(q) + 1 - i]]

CommentsResult(leading, trailing) ==
    [kind |-> "comments", leading |-> leading, trailing |-> trailing]

\* a trailing array that always starts empty
TrailingStartsEmpty(stream, tree, n) == <<>>

\* the trailing array before the forward loop pushes to it
TrailingStart(stream, tree, n) ==
    IF HoldsOnlyComments(tree, n) THEN getCommentTokens(stream, tree[n].range)
    ELSE <<>>

\* getComments(node) on a cache miss
computeComments(stream, coms, tree, n) ==
    IF tree[n].type = "Program"
    THEN CommentsResult(IF ContentLength(tree, n) = 0 THEN coms ELSE <<>>, <<>>)
    ELSE CommentsResult(
             Reverse(LeadingWalk(stream, tree, n, getTokenBefore(stream, tree[n].range))),
             TrailingStart(stream, tree, n)
                 \o TrailingWalk(stream, tree, n, getTokenAfter(stream, tree[n].range)))

\* a cache that is never found to hold the node
CommentCacheMisses(cache, n) == FALSE

\* this._commentCache.has(node)
CommentCacheHas(cache, n) == cache[n] # <<>>

getComments(cache, stream, coms, tree, n) ==
    IF CommentCacheHas(cache, n) THEN cache[n][1]
    ELSE computeComments(stream, coms, tree, n)

-----------------------------------------------------------------------------
(* getScope.  The scope manager is the external eslint-scope object: its   *)
(* scopes, and for each node what acquire(node, false) and                  *)
(* acquire(node, true) answer (Null for no scope).                          *)

ScopeResult(id) == [kind |-> "scope", line |-> Undefined, column |-> Undefined,
                    value |-> JsInt(id)]

\* scopeManager.acquire(node, inner)
acquire(mgr, n, inner) == mgr.acquire[n][IF inner THEN 2 ELSE 1]

\* this.scopeManager = scopeManager || null, when no scope manager is given
NoScopeManager == [scopes |-> <<>>, acquire |-> <<>>]

\* the for loop with the wrapper scope itself returned
RECURSIVE ScopeWalkKeepsWrapper(_, _, _, _, _)
ScopeWalkKeepsWrapper(mgr, tree, node, inner, calls) ==
    IF node = Null THEN [scope |-> 1, calls |-> calls]
    ELSE LET scope == acquire(mgr, node, inner)
         IN IF scope # Null
            THEN [scope |-> scope, calls |-> calls + 1]
            ELSE ScopeWalkKeepsWrapper(mgr, tree, tree[node].parent, inner, calls + 1)

\* the for loop of getScope from node on: the scope to cache and the number
\* of calls of acquire made
RECURSIVE ScopeWalk(_, _, _, _, _)
ScopeWalk(mgr, tree, node, inner, calls) ==
    IF node = Null THEN [scope |-> 1, calls |-> calls]    \* scopes[0]
    ELSE LET scope == acquire(mgr, node, inner)
         IN IF scope # Null
            THEN [scope |-> IF mgr.scopes[scope].type = "function-expression-name"
                            THEN mgr.scopes[scope].childScopes[1]
                            ELSE scope,
                  calls |-> calls + 1]
            ELSE ScopeWalk(mgr, tree, tree[node].parent, inner, calls + 1)

\* if (cachedScope)
ScopeCacheHit(cache, n) == cache[n] # <<>>

\* getScope(currentNode): the result, and the calls of acquire made
getScope(cache, mgr, tree, currentNode) ==
    IF currentNode = Null THEN [out |-> TypeError, calls |-> 0, store |-> FALSE]
    ELSE IF ScopeCacheHit(cache, currentNode)
    THEN [out |-> cache[currentNode][1], calls |-> 0, store |-> FALSE]
    ELSE IF mgr = NoScopeManager       \* this.scopeManager.acquire of null
    THEN [out |-> TypeError, calls |-> 0, store |-> FALSE]
    ELSE LET found == ScopeWalk(mgr, tree, currentNode,
                                tree[currentNode].type # "Program", 0)
         IN [out |-> ScopeResult(found.scope), calls |-> found.calls, store |-> TRUE]

-----------------------------------------------------------------------------
(* Node specification: getComments and getScope, with their caches, over   *)
(* a tree, its tokens and comments, and a scope manager.                    *)

MaxWork == 12      \* most stream walks, and most calls of acquire, of a run

\* a node spans from the start of a token to the end of a token
TokenSpans(layout) ==
    {<<ij[1] - 1, ij[2]>> :
        ij \in {p \in (1..Len(layout)) \X (1..Len(layout)) :
                   p[1] <= p[2] /\ layout[p[1]] = "t" /\ layout[p[2]] = "t"}}

LeafTypes == {"BlockStatement", "Identifier"}
InnerTypes == {"BlockStatement", "SwitchStatement"}

\* the types a tree of the shape par can have
TypeMaps(n, par) ==
    {typ \in [1..n -> {"Program"} \cup LeafTypes \cup InnerTypes] :
        /\ typ[1] = "Program"
        /\ \A i \in 2..n :
               IF \E k \in 2..n : par[k] = i THEN typ[i] \in InnerTypes
               ELSE typ[i] \in LeafTypes}

\* an Identifier is one token; a block or a switch statement begins and ends
\* with tokens of its own
SpanFits(type, range) ==
    IF type = "Identifier" THEN range[2] = range[1] + 1 ELSE range[2] > range[1] + 1

TypedTreesOf(layout, n) ==
    UNION {
        { [i \in 1..n |->
              Node(tr[2][i], tr[1][i], par[i], Ascending({k \in 1..n : par[k] = i}))] :
          tr \in {rt \in {r \in [1..n -> {<<0, Len(layout)>>} \cup TokenSpans(layout)] :
                              /\ r[1] = <<0, Len(layout)>>
                              /\ \A i \in 2..n : r[i] \in TokenSpans(layout)
                              /\ RangesNest(n, par, r)}
                          \X TypeMaps(n, par) :
                     \A i \in 2..n : SpanFits(rt[2][i], rt[1][i])} }
        : par \in ParentMaps(n) }

\* the three scopes of every manager: the global scope, the scope of a
\* function expression's name, and the function scope that is its child
ScopeTable ==
    << [type |-> "global", childScopes |-> <<2>>],
       [type |-> "function-expression-name", childScopes |-> <<3>>],
       [type |-> "function", childScopes |-> <<>>] >>

\* what a manager answers for one node: <<acquire(node, false), acquire(node, true)>>
AnswerPairs == {<<Null, Null>>, <<1, 1>>, <<Null, 3>>, <<2, 3>>, <<2, 2>>, <<3, Null>>}

\* a manager that knows the global scope of the root only
GlobalOnly(n) ==
    [scopes |-> ScopeTable,
     acquire |-> [i \in 1..n |-> IF i = 1 THEN <<1, 1>> ELSE <<Null, Null>>]]

\* a chain of n nodes over a single token
Chain(n) ==
    [i \in 1..n |->
        Node(IF i = 1 THEN "Program" ELSE IF i = n THEN "Identifier"
             ELSE "ExpressionStatement",
             <<0, 1>>, i - 1, IF i = n THEN <<>> ELSE <<i + 1>>)]

NoEntries(tree) == [i \in DOMAIN tree |-> <<>>]

\* a tree over a layout of tokens and comments, from a parser that sets
\* start and end or from one that does not
CommentFixtureOf(nodes, len) ==
    \E layout \in SeqsUpTo({"t", "c"}, len), acorn \in BOOLEAN :
        /\ \E n \in 1..nodes : \E tree \in TypedTreesOf(layout, n) :
               ast = IF acorn THEN tree ELSE [i \in DOMAIN tree |-> WithoutStartEnd(tree[i])]
        /\ tokens = LayoutTokens(layout)
        /\ comments = IF acorn THEN LayoutComments(layout)
                      ELSE [i \in DOMAIN LayoutComments(layout) |->
                               WithoutStartEnd(LayoutComments(layout)[i])]
        /\ scopeManager = GlobalOnly(Len(ast))

\* a chain of nodes with any answers of the scope manager
ScopeFixtureOf(nodes) ==
    \E n \in 1..nodes :
        /\ ast = Chain(n)
        /\ tokens = LayoutTokens(<<"t">>)
        /\ comments = <<>>
        /\ \E answers \in [1..n -> AnswerPairs] :
               scopeManager = [scopes |-> ScopeTable, acquire |-> answers]

\* the state the constructor leaves, the tree and the arrays given
Constructed ==
    /\ tokensAndComments = sortedMerge(tokens, comments)
    /\ commentCache = NoEntries(ast)
    /\ scopeCache = NoEntries(ast)
    /\ work = <<0, 0>>
    /\ NoText /\ NoFreeze
    /\ res = NoCall

GetComments ==
    \E n \in DOMAIN ast :
        /\ work[1] < MaxWork
        /\ LET hit == CommentCacheHas(commentCache, n)
               out == getComments(commentCache, tokensAndComments, comments, ast, n)
           IN /\ res' = [op |-> "getComments", arg |-> n, out |-> out, hit |-> hit]
              /\ commentCache' = IF hit THEN commentCache
                                 ELSE [commentCache EXCEPT ![n] = <<out>>]
              /\ work' = IF hit THEN work ELSE <<work[1] + 1, work[2]>>
        /\ UNCHANGED <<objectVars, scopeCache>>

GetScope ==
    \E n \in DOMAIN ast \cup {Null} :
        /\ work[2] < MaxWork
        /\ LET got == getScope(scopeCache, scopeManager, ast, n)
           IN /\ res' = [op |-> "getScope", arg |-> n, out |-> got.out,
                         hit |-> (n # Null /\ ~got.store)]
              /\ scopeCache' = IF got.store THEN [scopeCache EXCEPT ![n] = <<got.out>>]
                               ELSE scopeCache
              /\ work' = <<work[1], work[2] + got.calls>>
        /\ UNCHANGED <<objectVars, commentCache>>

\* getComments over every tree and layout
CommentInit == CommentFixtureOf(MaxNodes, MaxStream + 1) /\ Constructed
CommentNext == GetComments
CommentSpec == CommentInit /\ [][CommentNext]_vars

\* getComments and getScope together, over the smaller trees
CacheInit ==
    /\ CommentFixtureOf(MaxNodes - 1, MaxStream) \/ ScopeFixtureOf(MaxNodes - 1)
    /\ Constructed
CacheNext == GetComments \/ GetScope
CacheSpec == CacheInit /\ [][CacheNext]_vars

\* getScope over every chain and every scope manager, or none
ScopeInit ==
    /\ \/ ScopeFixtureOf(MaxNodes)
       \/ \E n \in 1..MaxNodes :
              /\ ast = Chain(n)
              /\ tokens = LayoutTokens(<<"t">>)
              /\ comments = <<>>
              /\ scopeManager = NoScopeManager
    /\ Constructed
ScopeNext == GetScope
ScopeSpec == ScopeInit /\ [][ScopeNext]_vars

-----------------------------------------------------------------------------
(* Claims on getComments and on the caches *)

\* the comments of ast.comments that lie inside the range of node n
InsideComments(n) ==
    SelectSeq(comments, LAMBDA c : Within(c.range, ast[n].range))

\* the comments that directly follow node n: no token lies between the
\* node's end and the comment, and neither the comment nor a comment before
\* it ends after the end of a parent that is not the root
FollowingComments(n) ==
    LET pastParent(c) ==
            /\ ast[n].parent # Null
            /\ ast[ast[n].parent].type # "Program"
            /\ JsGt(c.end, ast[ast[n].parent].end)
        between(lo, hi, q) ==
            {i \in 1..Len(q) : lo <= q[i].range[1] /\ q[i].range[1] <= hi}
    IN SelectSeq(comments, LAMBDA c :
           /\ c.range[1] >= ast[n].range[2]
           /\ between(ast[n].range[2], c.range[1], tokens) = {}
           /\ \A i \in between(ast[n].range[2], c.range[1], comments) :
                  ~pastParent(comments[i]))

\* getComments was called on a node that is not the root and whose content
\* is empty
C5_Case ==
    /\ res.op = "getComments"
    /\ ast[res.arg].type # "Program"
    /\ \/ ast[res.arg].type \in EmptiableTypes /\ Len(ast[res.arg].kids) = 0
       \/ ast[res.arg].type = "SwitchStatement" /\ Len(ast[res.arg].kids) = 1

\* C5 as stated: trailing is exactly the comments inside the node's range,
\* and no comment inside the range is in leading.
C5_AsStated ==
    C5_Case =>
        /\ res.out.trailing = InsideComments(res.arg)
        /\ \A i \in 1..Len(res.out.leading) :
               ~Within(res.out.leading[i].range, ast[res.arg].range)

\* C5 amended: trailing is the comments inside the node's range, in source
\* order, followed by the comments that directly follow the node's end, and
\* no comment inside the range is in leading.
C5_Amended ==
    C5_Case =>
        /\ res.out.trailing = InsideComments(res.arg) \o FollowingComments(res.arg)
        /\ \A i \in 1..Len(res.out.leading) :
               ~Within(res.out.leading[i].range, ast[res.arg].range)

\* an empty node with a comment inside it and a comment after it
C5_Witness ==
    /\ C5_Case
    /\ InsideComments(res.arg) # <<>>
    /\ Len(res.out.trailing) > Len(InsideComments(res.arg))

\* getComments was called on a node that is not the root and whose content
\* is not empty
C13_Case ==
    /\ res.op = "getComments"
    /\ ast[res.arg].type # "Program"
    /\ ~C5_Case

\* node n has a parent that is not the root
HasInnerParent(n) ==
    ast[n].parent # Null /\ ast[ast[n].parent].type # "Program"

\* the entries of q that begin at lo or after it and before hi
Between(lo, hi, q) ==
    {i \in 1..Len(q) : lo <= q[i].range[1] /\ q[i].range[1] < hi}

\* the run of comments just before node n: no token lies between the comment
\* and the node, and neither the comment nor a comment after it starts
\* before the start of a parent that is not the root
RunBefore(n) ==
    SelectSeq(comments, LAMBDA c :
        /\ c.range[2] <= ast[n].range[1]
        /\ Between(c.range[1], ast[n].range[1], tokens) = {}
        /\ \A i \in Between(c.range[1], ast[n].range[1], comments) :
               ~(HasInnerParent(n)
                   /\ comments[i].range[1] < ast[ast[n].parent].range[1]))

\* the run of comments just after node n, symmetrically
RunAfter(n) ==
    SelectSeq(comments, LAMBDA c :
        /\ c.range[1] >= ast[n].range[2]
        /\ Between(ast[n].range[2], c.range[2], tokens) = {}
        /\ \A i \in Between(ast[n].range[2], c.range[2], comments) :
               ~(HasInnerParent(n)
                   /\ comments[i].range[2] > ast[ast[n].parent].range[2]))

\* C13: for a node that is not the root and has content, leading is the run
\* of comments just before the node, cut off at the first comment that
\* starts before the start of a parent that is not the root, trailing is the
\* run just after it, cut off at the first comment that ends after that
\* parent's end, and with such a parent every comment attached lies within
\* the parent's range.
C13_Runs ==
    C13_Case =>
        /\ res.out.leading = RunBefore(res.arg)
        /\ res.out.trailing = RunAfter(res.arg)
        /\ HasInnerParent(res.arg) =>
               \A i \in 1..Len(res.out.leading \o res.out.trailing) :
                   Within((res.out.leading \o res.out.trailing)[i].range,
                          ast[ast[res.arg].parent].range)

\* C9: an entry of either cache, once stored, keeps its value; a call for a
\* node that has an entry returns the entry and makes no stream walk and no
\* call of acquire.
C9_WriteOnce ==
    [][ /\ \A n \in DOMAIN ast :
              /\ commentCache[n] # <<>> => commentCache'[n] = commentCache[n]
              /\ scopeCache[n] # <<>> => scopeCache'[n] = scopeCache[n]
        /\ (res'.op = "getComments" /\ commentCache[res'.arg] # <<>>)
               => (res'.out = commentCache[res'.arg][1] /\ work' = work)
        /\ (res'.op = "getScope" /\ res'.arg # Null /\ scopeCache[res'.arg] # <<>>)
               => (res'.out = scopeCache[res'.arg][1] /\ work' = work)
      ]_vars

\* calls served from each cache: a node's comments and a node's scope
C9_Witness ==
    /\ res.op = "getScope" /\ res.hit
    /\ commentCache[res.arg] # <<>>
    /\ work[1] > 0 /\ work[2] > 0

-----------------------------------------------------------------------------
(* Claims on getScope *)

\* node n and its ancestors
RECURSIVE ChainOf(_)
ChainOf(n) == IF n = Null THEN {} ELSE {n} \cup ChainOf(ast[n].parent)

\* what the scope manager reports for node a when asked on behalf of node n
Reported(n, a) == scopeManager.acquire[a][IF n = 1 THEN 1 ELSE 2]

\* the nodes of the chain of n for which a scope is reported
Anchors(n) == {a \in ChainOf(n) : Reported(n, a) # Null}

\* the scope expected for node n
ExpectedScope(n) ==
    IF Anchors(n) = {} THEN 1
    ELSE LET nearest == CHOOSE a \in Anchors(n) : Anchors(n) \subseteq ChainOf(a)
             scope == Reported(n, nearest)
         IN IF scopeManager.scopes[scope].type = "function-expression-name"
            THEN scopeManager.scopes[scope].childScopes[1]
            ELSE scope

\* C11: with a scope manager, getScope of a present node returns the scope
\* reported for the nearest node of its parent chain that has one, asked
\* with inner = (node is not the root); a function-expression-name scope is
\* replaced by its first child; with no scope on the chain the result is
\* scopes[0].  getScope of an absent node throws a TypeError.
C11_ScopeOf ==
    res.op = "getScope" =>
        IF res.arg = Null THEN res.out = TypeError
        ELSE scopeManager # NoScopeManager
                 => res.out = ScopeResult(ExpectedScope(res.arg))

\* a node without a scope of its own whose parent has a
\* function-expression-name scope: the child scope was returned
C11_Witness ==
    /\ res.op = "getScope" /\ res.arg # Null /\ ~res.hit
    /\ scopeManager # NoScopeManager
    /\ ast[res.arg].parent # Null
    /\ Reported(res.arg, res.arg) = Null
    /\ Reported(res.arg, ast[res.arg].parent) = 2
    /\ res.out = ScopeResult(3)

-----------------------------------------------------------------------------
(* getJSDocComment *)

TokenResult(i) == [kind |-> "token", line |-> Undefined, column |-> Undefined,
                   value |-> JsInt(i)]
NullResult == [kind |-> "null", line |-> Undefined, column |-> Undefined,
               value |-> Undefined]

looksLikeExport(astNode) ==
    astNode.type \in {"ExportDefaultDeclaration", "ExportNamedDeclaration",
                      "ExportAllDeclaration", "ExportSpecifier"}

\* getCommentsBefore(nodeOrToken).length of TokenStore is not zero: the
\* entry just before is a comment
HasCommentsBefore(stream, range) ==
    /\ getTokenBefore(stream, range) # Null
    /\ isCommentToken(stream[getTokenBefore(stream, range)])

\* the test of findJSDocComment on the token before astNode
IsJSDocFor(tokenBefore, astNode) ==
    /\ isCommentToken(tokenBefore)
    /\ tokenBefore.type = "Block"
    /\ tokenBefore.star
    /\ astNode.line - tokenBefore.line <= 1

\* findJSDocComment(astNode); getTokenBefore reads the range of its
\* argument, a TypeError when the argument is undefined
findJSDocComment(stream, tree, astNode) ==
    IF astNode = Null THEN TypeError
    ELSE LET tokenBefore == getTokenBefore(stream, tree[astNode].range)
         IN IF tokenBefore # Null /\ IsJSDocFor(stream[tokenBefore], tree[astNode])
            THEN TokenResult(tokenBefore)
            ELSE NullResult

\* the condition of the while loop over the ancestors
KeepsAscending(stream, tree, parent) ==
    /\ ~HasCommentsBefore(stream, tree[parent].range)
    /\ tree[parent].type \notin {"FunctionDeclaration", "FunctionExpression",
                                 "ArrowFunctionExpression"}
    /\ tree[parent].type # "MethodDefinition"
    /\ tree[parent].type # "Property"

\* the while loop from parent on: the value of parent when the loop ends
RECURSIVE AscendFrom(_, _, _)
AscendFrom(stream, tree, parent) ==
    IF ~KeepsAscending(stream, tree, parent) THEN parent
    ELSE IF tree[parent].parent = Null THEN Null
    ELSE AscendFrom(stream, tree, tree[parent].parent)

\* the case of a class expression
ClassExpressionCase(stream, tree, parent) ==
    IF parent = Null THEN TypeError
    ELSE findJSDocComment(stream, tree, tree[parent].parent)

getJSDocComment(stream, tree, node) ==
    LET parent == tree[node].parent
    IN CASE tree[node].type \in {"ClassDeclaration", "FunctionDeclaration"} ->
                IF parent = Null THEN TypeError
                ELSE findJSDocComment(stream, tree,
                         IF looksLikeExport(tree[parent]) THEN parent ELSE node)
         [] tree[node].type = "ClassExpression" ->
                ClassExpressionCase(stream, tree, parent)
         [] tree[node].type \in {"ArrowFunctionExpression", "FunctionExpression"} ->
                IF parent = Null THEN TypeError
                ELSE IF tree[parent].type \notin {"CallExpression", "NewExpression"}
                THEN LET found == AscendFrom(stream, tree, parent)
                     IN IF found # Null
                           /\ tree[found].type # "FunctionDeclaration"
                           /\ tree[found].type # "Program"
                        THEN findJSDocComment(stream, tree, found)
                        ELSE findJSDocComment(stream, tree, node)
                ELSE findJSDocComment(stream, tree, node)
         [] OTHER -> NullResult

-----------------------------------------------------------------------------
(* Documentation comment specification: getJSDocComment and getComments   *)
(* over chains of nodes of the types getJSDocComment tells apart.          *)

DocLayouts == SeqsUpTo({"t", "d", "c", "n"}, MaxStream)

DocTypes == {"ClassExpression", "FunctionExpression", "FunctionDeclaration",
             "ExportNamedDeclaration", "CallExpression", "Property",
             "ExpressionStatement"}

\* the chains of n nodes over the layout: each node inside its parent
DocTreesOf(layout, n) ==
    { [i \in 1..n |->
          [Node(tr[2][i], tr[1][i], i - 1, IF i = n THEN <<>> ELSE <<i + 1>>)
              EXCEPT !.line = 1 + BreaksBefore(layout, tr[1][i][1] + 1)]] :
      tr \in {r \in [1..n -> {<<0, Len(layout)>>} \cup TokenSpans(layout)] :
                 /\ r[1] = <<0, Len(layout)>>
                 /\ \A i \in 2..n : r[i] \in TokenSpans(layout)
                 /\ \A i \in 2..n : Within(r[i], r[i - 1])}
             \X {typ \in [1..n -> {"Program"} \cup DocTypes] :
                    typ[1] = "Program" /\ \A i \in 2..n : typ[i] \in DocTypes} }

\* the tree as the parser leaves it, before parent links are set
Unlinked(tree) == [i \in DOMAIN tree |-> [tree[i] EXCEPT !.parent = Null]]

DocInit ==
    /\ \E layout \in DocLayouts, linked \in BOOLEAN :
           /\ \E n \in 1..MaxNodes : \E tree \in DocTreesOf(layout, n) :
                  ast = IF linked THEN tree ELSE Unlinked(tree)
           /\ tokens = LayoutTokens(layout)
           /\ comments = LayoutComments(layout)
    /\ scopeManager = GlobalOnly(Len(ast))
    /\ Constructed

GetJSDocComment ==
    \E n \in DOMAIN ast :
        /\ res' = [op |-> "getJSDocComment", arg |-> n,
                   out |-> getJSDocComment(tokensAndComments, ast, n), hit |-> FALSE]
        /\ UNCHANGED <<objectVars, cacheVars>>

DocNext == GetJSDocComment \/ GetComments

DocSpec == DocInit /\ [][DocNext]_vars

\* C10: getComments and getJSDocComment throw for no node of the tree.
C10_NeverThrows ==
    res.op \in {"getComments", "getJSDocComment"} => ~Threw(res.out)

-----------------------------------------------------------------------------
(* Freeze specification: the object after its constructor has frozen it,   *)
(* the queries that hand out its arrays, and writes attempted by callers   *)
(* through the references they hold.                                        *)

MaxWrites == 2     \* most writes a caller attempts in a run

\* Object.freeze(this); Object.freeze(this.lines);
FrozenByConstructor == {"this", "lines"}

ExposedArrays == {"lines", "lineStartIndices", "tokensAndComments", "comments"}

\* the exposed data of the object
Exposed ==
    [text |-> text, lines |-> lines, lineStartIndices |-> lineStartIndices,
     tokensAndComments |-> tokensAndComments, comments |-> comments]

FreezeInit ==
    /\ text \in Texts
    /\ lines = BuildLines(text)
    /\ lineStartIndices = BuildLineStartIndices(text)
    /\ \E layout \in SeqsUpTo({"t", "c"}, MaxEntries) :
           /\ tokens = LayoutTokens(layout)
           /\ comments = LayoutComments(layout)
    /\ tokensAndComments = sortedMerge(tokens, comments)
    /\ frozen = FrozenByConstructor
    /\ built = Exposed
    /\ ast = <<>> /\ scopeManager = <<>>
    /\ NoCaches
    /\ res = NoCall

\* getLines(): the array itself
GetLines ==
    /\ res' = [op |-> "getLines", arg |-> Undefined, out |-> lines]
    /\ UNCHANGED <<objectVars, cacheVars>>

\* getAllComments(): the array of the AST itself
GetAllComments ==
    /\ res' = [op |-> "getAllComments", arg |-> Undefined, out |-> comments]
    /\ UNCHANGED <<objectVars, cacheVars>>

\* a write to an array: refused when the array is frozen
Written(name, arr, after) == IF name \in frozen THEN arr ELSE after

\* the array after a push, a pop or a write of element i
Changed(arr, how, i, filler) ==
    CASE how = "push" -> Append(arr, filler)
      [] how = "pop" -> SubSeq(arr, 1, Len(arr) - 1)
      [] OTHER -> [arr EXCEPT ![i] = filler]

ArrayNamed(name) ==
    CASE name = "lines" -> lines
      [] name = "lineStartIndices" -> lineStartIndices
      [] name = "tokensAndComments" -> tokensAndComments
      [] OTHER -> comments

\* a caller pushes to, pops from or writes an element of an array it holds
WriteArray ==
    \E name \in ExposedArrays, how \in {"push", "pop", "set"}, i \in 1..(MaxLen + 1) :
        /\ work[1] < MaxWrites
        /\ how = "pop" => Len(ArrayNamed(name)) > 0
        /\ how = "set" => i <= Len(ArrayNamed(name))
        /\ how # "set" => i = 1
        /\ lines' = IF name = "lines"
                    THEN Written(name, lines, Changed(lines, how, i, <<"a">>))
                    ELSE lines
        /\ lineStartIndices' =
               IF name = "lineStartIndices"
               THEN Written(name, lineStartIndices, Changed(lineStartIndices, how, i, 0))
               ELSE lineStartIndices
        /\ tokensAndComments' =
               IF name = "tokensAndComments"
               THEN Written(name, tokensAndComments,
                            Changed(tokensAndComments, how, i,
                                    Entry("comment", "Line", <<0, 0>>, 1, FALSE, FALSE)))
               ELSE tokensAndComments
        /\ comments' =
               IF name = "comments"
               THEN Written(name, comments,
                            Changed(comments, how, i,
                                    Entry("comment", "Line", <<0, 0>>, 1, FALSE, FALSE)))
               ELSE comments
        /\ work' = <<work[1] + 1, work[2]>>
        /\ res' = [op |-> "write", arg |-> name, out |-> how]
        /\ UNCHANGED <<text, tokens, ast, freezeVars, scopeManager, commentCache, scopeCache>>

\* a caller assigns to a field of the object: refused, the object is frozen
AssignField ==
    \E name \in ExposedArrays \cup {"text"} :
        /\ work[1] < MaxWrites
        /\ "this" \in frozen
        /\ work' = <<work[1] + 1, work[2]>>
        /\ res' = [op |-> "assign", arg |-> name, out |-> "refused"]
        /\ UNCHANGED <<objectVars, commentCache, scopeCache>>

FreezeNext == GetLines \/ GetAllComments \/ WriteArray \/ AssignField

FreezeSpec == FreezeInit /\ [][FreezeNext]_vars

\* C4: whatever callers query and attempt to write, the exposed data stay
\* what they were when the constructor returned.
C4_Immutable == Exposed = built

====
